---- MODULE Spec2Model ----
(***************************************************************************)
(* Model of the eggdrop-ai gateway's VectorMemory engine (gateway/memory). *)
(* The state is the engine object (options, db handle, embedder,           *)
(* initialized flag), the two SQLite tables it owns (messages and          *)
(* vec_messages, with the AUTOINCREMENT counter), the background embedding *)
(* tasks scheduled with setImmediate, and the getContext call in flight.   *)
(* One step of the model is one run-to-completion turn of the Node event   *)
(* loop: a call up to its first await, or the continuation after an await. *)
(* Failures of the environment (a query or an insert that throws, a model  *)
(* load or an embedding that rejects) are inputs of the step they hit.     *)
(* getContext reads the store and writes nothing, so concurrent calls do   *)
(* not see each other: one call at a time is followed.                     *)
(***************************************************************************)
EXTENDS Integers, Sequences, FiniteSets, TLC

(* ------------------------------ bounds --------------------------------- *)

\* Number of message rows that may be inserted.
MaxMsgs == 2

\* Largest value of Date.now() (milliseconds, counted from 0).
MaxClock == 1

\* topK and includeRecent range over 0..MaxK.
MaxK == 2

\* initialize() calls that may be suspended on the model load at once.
MaxLoading == 2

\* Largest value of [clock seconds] (seconds, counted from 0).
MaxSeconds == 11

\* llmbot_rate_limit ranges over 1..MaxRateLimit.
MaxRateLimit == 2

\* llmbot_max_response_size ranges over 1..MaxResponseSize.
MaxResponseSize == 3

\* Longest body of a gateway response, in characters.
MaxData == 3

Channels == {"#a", "#b"}

Texts == {"red", "blue"}

\* (user, role) of the two call sites of addMessage in the gateway.
Authors == {<<"alice", "user">>}

(* ------------------------------ state ---------------------------------- *)

VARIABLES
    enabled,        \* options.enabled
    topK,           \* options.topK
    includeRecent,  \* options.includeRecent
    db,             \* this.db: "null" or "open"
    embedder,       \* this.embedder is not null
    initialized,    \* this.initialized
    loading,        \* initialize() calls suspended at `await pipeline(...)`
    messages,       \* table messages, in rowid order
    seq,            \* sqlite_sequence of table messages (largest id ever assigned)
    vec,            \* table vec_messages: set of [message_id, embedding]
    tasks,          \* setImmediate callbacks not yet finished: [id, text, pc]
    failedLog,      \* ids whose embedding task logged "Failed to generate/store embedding"
    ret,            \* ids that addMessage has returned to a caller
    unhandled,      \* an error has escaped a background callback (unhandled rejection)
    now,            \* Date.now()
    ctx,            \* the getContext call in flight, or the last one completed
    out,            \* outcome of the addMessage call made by the last step, if it was one
    chat,           \* gateway: the POST /chat request in flight
    res,            \* gateway: the HTTP response sent by the last step, if it sent one
    llmbot_rate_limit,          \* eggdrop script: seconds between requests per user
    llmbot_max_response_size,   \* eggdrop script: max characters of an LLM response
    llmbot_last_request,        \* eggdrop script: array "nick!chan" -> clock seconds
    clock,          \* eggdrop script: [clock seconds]
    forwarded,      \* history: per "nick!chan", when its last query went to /chat
    irc             \* eggdrop script: what the last handler call sent (HTTP requests, PRIVMSGs)

vars == <<enabled, topK, includeRecent, db, embedder, initialized, loading,
          messages, seq, vec, tasks, failedLog, ret, unhandled, now, ctx, out,
          chat, res, llmbot_rate_limit, llmbot_max_response_size,
          llmbot_last_request, clock, forwarded, irc>>

\* The state of the gateway's request handlers.
gateway == <<chat, res>>

\* The state of the eggdrop script.
bot == <<llmbot_rate_limit, llmbot_max_response_size, llmbot_last_request,
         clock, forwarded, irc>>

\* What the engine's own steps do not touch.
outside == <<gateway, bot>>

options == <<enabled, topK, includeRecent>>

engine == <<db, embedder, initialized, loading>>

store == <<messages, seq, vec, tasks, failedLog, ret, unhandled>>

NoOut == [op |-> "none", kind |-> "none", val |-> 0]

Returned(op, v) == [op |-> op, kind |-> "return", val |-> v]

Thrown(op) == [op |-> op, kind |-> "throw", val |-> 0]

IdleCtx == [pc |-> "idle", channel |-> "#a", query |-> "red", path |-> "none",
            recent |-> <<>>, similar |-> <<>>, result |-> <<>>]

(* --------------------------- pure helpers ------------------------------ *)

Min(a, b) == IF a < b THEN a ELSE b

Max(a, b) == IF a > b THEN a ELSE b

Range(s) == {s[i] : i \in 1..Len(s)}

Reverse(s) == [i \in 1..Len(s) |-> s[Len(s) + 1 - i]]

Ids(s) == {s[i].id : i \in 1..Len(s)}

\* SQL LIMIT n for n >= 0.
Limit(s, n) == SubSeq(s, 1, Min(n, Len(s)))

\* Array.prototype.slice(0, end): a negative end counts from the end of the array.
Slice0(s, end) ==
    LET stop == IF end < 0 THEN Max(Len(s) + end, 0) ELSE Min(end, Len(s))
    IN  SubSeq(s, 1, stop)

\* The embedding model, abstracted to one number per text (equal texts, equal vectors).
Embed(text) == IF text = "red" THEN 0 ELSE 1

\* vec_distance_cosine, abstracted: 0 for identical vectors, larger when further apart.
Distance(e1, e2) == IF e1 >= e2 THEN e1 - e2 ELSE e2 - e1

(* ------------------------------ queries -------------------------------- *)

\* Rows with equal sort keys: SQL leaves their order to the query plan, so the
\* order (`tie`) is an input of each query.
Ties == {"rowid_asc", "rowid_desc"}

TieBefore(tie, id1, id2) == IF tie = "rowid_asc" THEN id1 < id2 ELSE id1 > id2

\* Mutant of ChannelRows: the WHERE clause is missing.
ChannelRowsAllChannels(channel) == Range(messages)

\* SELECT ... FROM messages WHERE channel = ?
ChannelRows(channel) == {m \in Range(messages) : m.channel = channel}

RECURSIVE OrderByTimestampDesc(_, _)
\* ORDER BY timestamp DESC
OrderByTimestampDesc(rows, tie) ==
    IF rows = {} THEN <<>>
    ELSE LET first == CHOOSE r \in rows : \A o \in rows \ {r} :
                          \/ r.timestamp > o.timestamp
                          \/ r.timestamp = o.timestamp /\ TieBefore(tie, r.id, o.id)
         IN  <<first>> \o OrderByTimestampDesc(rows \ {first}, tie)

\* getRecentMessages(channel, limit); queryOk = FALSE is a query that throws.
GetRecentMessages(channel, limit, queryOk, tie) ==
    IF ~enabled \/ ~initialized \/ db = "null" THEN <<>>
    ELSE IF ~queryOk THEN <<>>
    ELSE Reverse(Limit(OrderByTimestampDesc(ChannelRows(channel), tie), limit))

\* FROM vec_messages v JOIN messages m ON v.message_id = m.id WHERE m.channel = ?
JoinRows(channel, queryEmbedding) ==
    {[row |-> m, distance |-> Distance(v.embedding, queryEmbedding)] :
        <<m, v>> \in {p \in ChannelRows(channel) \X vec : p[2].message_id = p[1].id}}

RECURSIVE OrderByDistanceDesc(_, _)
\* Mutant of OrderByDistanceAsc: ORDER BY distance DESC.
OrderByDistanceDesc(joined, tie) ==
    IF joined = {} THEN <<>>
    ELSE LET first == CHOOSE r \in joined : \A o \in joined \ {r} :
                          \/ r.distance > o.distance
                          \/ r.distance = o.distance /\ TieBefore(tie, r.row.id, o.row.id)
         IN  <<first.row>> \o OrderByDistanceDesc(joined \ {first}, tie)

RECURSIVE OrderByDistanceAsc(_, _)
\* ORDER BY distance ASC
OrderByDistanceAsc(joined, tie) ==
    IF joined = {} THEN <<>>
    ELSE LET first == CHOOSE r \in joined : \A o \in joined \ {r} :
                          \/ r.distance < o.distance
                          \/ r.distance = o.distance /\ TieBefore(tie, r.row.id, o.row.id)
         IN  <<first.row>> \o OrderByDistanceAsc(joined \ {first}, tie)

\* The part of searchSimilar that runs after `await generateEmbedding(query)`.
\* embedOk = FALSE: the embedder throws; queryOk = FALSE: the vector query throws.
\* With this.db null, this.db.prepare throws a TypeError, caught like the others.
SearchSimilarResume(channel, query, limit, embedOk, queryOk, tie) ==
    IF ~embedOk \/ db = "null" \/ ~queryOk THEN <<>>
    ELSE Limit(OrderByDistanceAsc(JoinRows(channel, Embed(query)), tie), limit)

\* Mutant of SearchSimilarThrows: searchSimilar has no catch block.
SearchSimilarRejects(embedOk, queryOk) == ~embedOk \/ db = "null" \/ ~queryOk

\* Whether searchSimilar rejects: its catch block returns [], so it never does.
SearchSimilarThrows(embedOk, queryOk) == FALSE

\* Which way searchSimilar ended.
SearchPath(embedOk, queryOk) ==
    IF ~embedOk THEN "embedFail"
    ELSE IF db = "null" \/ ~queryOk THEN "indexFail"
    ELSE "ok"

\* Mutant of AdditionalContext: the filter on recentIds is missing.
AdditionalContextNoFilter(recent, similar) == Slice0(similar, topK - includeRecent)

\* similar.filter(m => !recentIds.has(m.id)).slice(0, topK - includeRecent)
AdditionalContext(recent, similar) ==
    Slice0(SelectSeq(similar, LAMBDA m : m.id \notin Ids(recent)), topK - includeRecent)

\* [...recent, ...additionalContext]
Combined(recent, similar) == recent \o AdditionalContext(recent, similar)

\* Mutant of ContextResult: an empty similarity list empties the result.
ContextResultEmptyWithoutSimilar(recent, similar, rejected) ==
    IF rejected \/ similar = <<>> THEN <<>> ELSE recent \o similar

\* The value getContext resolves to: its own catch block returns [] when the
\* Promise.all rejects.
ContextResult(recent, similar, rejected) ==
    IF rejected THEN <<>> ELSE Combined(recent, similar)

(* ------------------------------- Init ---------------------------------- *)

\* No POST /chat request is being handled.
NoChat == [pc |-> "idle", channel |-> "#a", user |-> "alice", message |-> "red",
           messages |-> <<>>, timer |-> "none"]

\* No HTTP response was sent by the last step.
NoRes == [status |-> 0, body |-> "none"]

\* The gateway before its first request.
GatewayInit ==
    /\ chat = NoChat
    /\ res = NoRes

\* The eggdrop script after it is sourced with the two settings given.
BotInit(rate, size) ==
    /\ llmbot_rate_limit = rate
    /\ llmbot_max_response_size = size
    /\ llmbot_last_request = <<>>
    /\ clock = 0
    /\ forwarded = <<>>
    /\ irc = <<>>

\* The engine after `new VectorMemory(options)` on a fresh database file.
Init ==
    /\ enabled \in BOOLEAN
    /\ topK \in 0..MaxK
    /\ includeRecent \in 0..MaxK
    /\ db = "null"
    /\ embedder = FALSE
    /\ initialized = FALSE
    /\ loading = 0
    /\ messages = <<>>
    /\ seq = 0
    /\ vec = {}
    /\ tasks = {}
    /\ failedLog = {}
    /\ ret = {}
    /\ unhandled = FALSE
    /\ now = 0
    /\ ctx = IdleCtx
    /\ out = NoOut
    /\ GatewayInit
    /\ BotInit(1, 1)

\* A completed getContext hands its result to the caller in the step that
\* completes it; a suspended call stays suspended across other steps.
CtxAfterStep == IF ctx.pc = "done" THEN IdleCtx ELSE ctx

(* ----------------------------- lifecycle ------------------------------- *)

\* initialize() up to `await pipeline(...)`.  step: "openFail" (new Database
\* throws), "extFail" (loadExtension throws) or "ok".
Initialize(step) ==
    /\ step = "ok" /\ enabled /\ ~initialized => loading < MaxLoading
    /\ IF ~enabled \/ initialized
       THEN /\ out' = NoOut
            /\ UNCHANGED engine
       ELSE /\ db' = IF step = "openFail" THEN db ELSE "open"
            /\ loading' = IF step = "ok" THEN loading + 1 ELSE loading
            /\ out' = NoOut
            /\ UNCHANGED <<embedder, initialized>>
    /\ ctx' = CtxAfterStep
    /\ UNCHANGED <<options, store, now>>

\* initialize() after `await pipeline(...)`; loaded = FALSE: the load rejects.
InitializeResume(loaded) ==
    /\ loading > 0
    /\ loading' = loading - 1
    /\ embedder' = (embedder \/ loaded)
    /\ initialized' = (initialized \/ loaded)
    /\ out' = NoOut
    /\ ctx' = CtxAfterStep
    /\ UNCHANGED <<options, db, store, now>>

\* close()
Close ==
    /\ db' = "null"
    /\ initialized' = IF db # "null" THEN FALSE ELSE initialized
    /\ out' = NoOut
    /\ ctx' = CtxAfterStep
    /\ UNCHANGED <<options, embedder, loading, store, now>>

\* The wall clock advances.
Tick ==
    /\ now < MaxClock
    /\ now' = now + 1
    /\ out' = NoOut
    /\ ctx' = CtxAfterStep
    /\ UNCHANGED <<options, engine, store>>

(* ----------------------------- addMessage ------------------------------ *)

\* Mutant of NextRowid: the id of the last row is handed out again.
NextRowidReuse == Max(seq, 1)

\* INTEGER PRIMARY KEY AUTOINCREMENT: one more than the largest id ever assigned.
NextRowid == seq + 1

\* Mutant of ScheduledTask: the embedding is started inside addMessage.
InlineTask(id, text) == [id |-> id, text |-> text, pc |-> "embedding"]

\* Mutant of ScheduledTask: the callback is never handed to the event loop.
NeverScheduledTask(id, text) == [id |-> id, text |-> text, pc |-> "dropped"]

\* setImmediate(async () => {...}): the callback is queued, not run.
ScheduledTask(id, text) == [id |-> id, text |-> text, pc |-> "scheduled"]

\* What addMessage does when the engine is not ready or has no database.
AddMessageRefusal ==
    IF ~enabled \/ ~initialized THEN Returned("addMessage", -1)
    ELSE Thrown("addMessage")

\* Mutant of InsertFailure: the catch block swallows the error and returns -1.
InsertFailureSwallowed == Returned("addMessage", -1)

\* What addMessage does when the INSERT throws: the catch block logs and rethrows.
InsertFailure == Thrown("addMessage")

\* addMessage(channel, user, message, role); insertOk = FALSE: the INSERT throws.
AddMessage(channel, author, text, insertOk) ==
    LET refused == ~enabled \/ ~initialized \/ db = "null"
        id == NextRowid
    IN  /\ ~refused /\ insertOk => Len(messages) < MaxMsgs
        /\ IF refused
           THEN /\ out' = AddMessageRefusal
                /\ UNCHANGED store
           ELSE IF ~insertOk
           THEN /\ out' = InsertFailure
                /\ UNCHANGED store
           ELSE /\ messages' = Append(messages,
                        [id |-> id, channel |-> channel, user |-> author[1],
                         message |-> text, role |-> author[2], timestamp |-> now])
                /\ seq' = id
                /\ tasks' = tasks \cup {ScheduledTask(id, text)}
                /\ ret' = ret \cup {id}
                /\ out' = Returned("addMessage", id)
                /\ UNCHANGED <<vec, failedLog, unhandled>>
        /\ ctx' = CtxAfterStep
        /\ UNCHANGED <<options, engine, now>>

\* Mutant of TasksAfterFailure: the failed task is queued again.
TasksAfterFailureRetry(t) == (tasks \ {t}) \cup {ScheduledTask(t.id, t.text)}

\* What an embedding task leaves queued after a failure: the catch block logs and
\* the callback ends.
TasksAfterFailure(t) == tasks \ {t}

\* The catch block of the callback rethrows nothing.
UnhandledAfterFailure == unhandled

\* The setImmediate callback runs up to `await this.embedder(...)`.
EmbedStart(t) ==
    /\ t.pc = "scheduled"
    /\ IF embedder
       THEN /\ tasks' = (tasks \ {t}) \cup {[t EXCEPT !.pc = "embedding"]}
            /\ UNCHANGED <<failedLog, unhandled>>
       ELSE /\ tasks' = TasksAfterFailure(t)
            /\ failedLog' = failedLog \cup {t.id}
            /\ unhandled' = UnhandledAfterFailure
    /\ out' = NoOut
    /\ ctx' = CtxAfterStep
    /\ UNCHANGED <<options, engine, messages, seq, vec, ret, now>>

\* Mutant of VecRow: the embedding is stored under the wrong rowid (off by one).
VecRowOffByOne(t) == [message_id |-> t.id + 1, embedding |-> Embed(t.text)]

\* The row the callback inserts in vec_messages.
VecRow(t) == [message_id |-> t.id, embedding |-> Embed(t.text)]

\* The callback after the await.  embedOk = FALSE: the embedder rejects;
\* insertOk = FALSE: the INSERT INTO vec_messages throws.  With this.db null,
\* this.db!.prepare throws a TypeError; message_id is a primary key.
EmbedFinish(t, embedOk, insertOk) ==
    /\ t.pc = "embedding"
    /\ IF /\ embedOk
          /\ db # "null"
          /\ insertOk
          /\ \A v \in vec : v.message_id # t.id
       THEN /\ vec' = vec \cup {VecRow(t)}
            /\ tasks' = tasks \ {t}
            /\ UNCHANGED <<failedLog, unhandled>>
       ELSE /\ tasks' = TasksAfterFailure(t)
            /\ failedLog' = failedLog \cup {t.id}
            /\ unhandled' = UnhandledAfterFailure
            /\ UNCHANGED vec
    /\ out' = NoOut
    /\ ctx' = CtxAfterStep
    /\ UNCHANGED <<options, engine, messages, seq, ret, now>>

(* ----------------------------- getContext ------------------------------ *)

DoneCtx(channel, query, path, recent, similar, result) ==
    [pc |-> "done", channel |-> channel, query |-> query, path |-> path,
     recent |-> recent, similar |-> similar, result |-> result]

\* getContext(channel, query) up to `await Promise.all(...)`.  getRecentMessages
\* has no await and reads the table now; searchSimilar suspends on the query's
\* embedding unless its guard returns [] at once.  recentOk = FALSE: the recency
\* query throws.
GetContextCall(channel, query, recentOk, tie) ==
    /\ ctx.pc # "awaitEmbed"
    /\ IF ~enabled \/ ~initialized
       THEN ctx' = DoneCtx(channel, query, "notReady", <<>>, <<>>, <<>>)
       ELSE LET recent == GetRecentMessages(channel, includeRecent, recentOk, tie)
            IN  IF db = "null" \/ ~embedder
                THEN ctx' = DoneCtx(channel, query, "noDb", recent, <<>>,
                                    ContextResult(recent, <<>>, FALSE))
                ELSE ctx' = [pc |-> "awaitEmbed", channel |-> channel, query |-> query,
                             path |-> "none", recent |-> recent, similar |-> <<>>,
                             result |-> <<>>]
    /\ out' = NoOut
    /\ UNCHANGED <<options, engine, store, now>>

\* getContext after the await: searchSimilar finishes and the two lists are merged.
GetContextResume(embedOk, queryOk, tie) ==
    /\ ctx.pc = "awaitEmbed"
    /\ LET similar == SearchSimilarResume(ctx.channel, ctx.query, topK, embedOk, queryOk, tie)
       IN  ctx' = DoneCtx(ctx.channel, ctx.query, SearchPath(embedOk, queryOk),
                          ctx.recent, similar,
                          ContextResult(ctx.recent, similar,
                                        SearchSimilarThrows(embedOk, queryOk)))
    /\ out' = NoOut
    /\ UNCHANGED <<options, engine, store, now>>

(* ------------------------------ getStats ------------------------------- *)

\* { totalMessages: 0, messagesByChannel: {} }
ZeroStats == [totalMessages |-> 0, messagesByChannel |-> <<>>]

\* SELECT channel, COUNT(*) as count FROM messages GROUP BY channel
CountByChannel ==
    [c \in {m.channel : m \in Range(messages)} |->
        Cardinality({i \in 1..Len(messages) : messages[i].channel = c})]

\* Mutant of GetStats: the try block has no catch.
GetStatsNoCatch(queryOk) ==
    IF ~enabled \/ ~initialized \/ db = "null" THEN Returned("getStats", ZeroStats)
    ELSE IF ~queryOk THEN Thrown("getStats")
    ELSE Returned("getStats", [totalMessages |-> Len(messages),
                               messagesByChannel |-> CountByChannel])

\* getStats(); queryOk = FALSE: one of its two queries throws.
GetStats(queryOk) ==
    IF ~enabled \/ ~initialized \/ db = "null" THEN Returned("getStats", ZeroStats)
    ELSE IF ~queryOk THEN Returned("getStats", ZeroStats)
    ELSE Returned("getStats", [totalMessages |-> Len(messages),
                               messagesByChannel |-> CountByChannel])

\* A call of getStats(): it is synchronous and only reads.
GetStatsCall(queryOk) ==
    /\ out' = GetStats(queryOk)
    /\ ctx' = CtxAfterStep
    /\ UNCHANGED <<options, engine, store, now>>

(* ------------------------------- gateway ------------------------------- *)

MAX_MESSAGE_LENGTH == 1000

MAX_USER_LENGTH == 100

MAX_CHANNEL_LENGTH == 100

TRIM_MESSAGE_TO == 500

\* express.json({ limit: '10kb' }), in bytes.
BODY_LIMIT == 10240

\* The values a field of the JSON body can have: absent, a number, a string.
Undefined == [type |-> "undefined", text |-> ""]

NotString == [type |-> "number", text |-> ""]

Str(text) == [type |-> "string", text |-> text]

\* String.prototype.length of the strings of the model; "m1000" names a string of
\* 1000 characters, and so on.
Length(text) ==
    CASE text = ""       -> 0
      [] text = "#a"     -> 2
      [] text = "red"    -> 3
      [] text = " red "  -> 5
      [] text = "alice"  -> 5
      [] text = "hello"  -> 5
      [] text = "u101"   -> 101
      [] text = "c101"   -> 101
      [] text = "m500"   -> 500
      [] text = "m1000"  -> 1000
      [] text = "m1001"  -> 1001
      [] text = "m11000" -> 11000
      [] OTHER           -> 1

\* message.trim()
Trim(text) == IF text = " red " THEN "red" ELSE text

\* .slice(0, TRIM_MESSAGE_TO): "m500" names the first 500 characters of "m1000".
SliceTo(text) ==
    IF Length(text) <= TRIM_MESSAGE_TO THEN text
    ELSE IF text = "m1000" THEN "m500"
    ELSE "cut"

\* chatReq.message.trim().slice(0, TRIM_MESSAGE_TO)
TrimmedMessage(message) == SliceTo(Trim(message.text))

\* isValidString with the upper limit left out of the range.
isValidStringBelow(value, maxLength) ==
    /\ value.type = "string"
    /\ Length(value.text) > 0
    /\ Length(value.text) < maxLength

\* typeof value === 'string' && value.length > 0 && value.length <= maxLength
isValidString(value, maxLength) ==
    /\ value.type = "string"
    /\ Length(value.text) > 0
    /\ Length(value.text) <= maxLength

\* validateRequest: the error text, or "null".
validateRequest(req) ==
    IF ~isValidString(req.message, MAX_MESSAGE_LENGTH) THEN "Missing or invalid message"
    ELSE IF ~isValidString(req.user, MAX_USER_LENGTH) THEN "Missing or invalid user"
    ELSE IF ~isValidString(req.channel, MAX_CHANNEL_LENGTH) THEN "Missing or invalid channel"
    ELSE "null"

\* The body parser refuses a body over its limit before any handler runs.  The
\* characters of the three fields are a lower bound of the body's size.
BodyTooLarge(req) ==
    Length(req.message.text) + Length(req.user.text) + Length(req.channel.text) > BODY_LIMIT

\* The JSON bodies sent to /store and /chat.
Requests ==
    [message : {Undefined, NotString, Str(""), Str("red"), Str(" red "),
                Str("m1000"), Str("m1001"), Str("m11000")},
     user    : {Str("alice"), Str("u101")},
     channel : {Str("#a"), Str("c101")}]

Response(status, body) == [status |-> status, body |-> body]

\* A step of a handler that calls nothing of the engine.
EngineUntouched ==
    /\ ctx' = CtxAfterStep
    /\ out' = NoOut
    /\ UNCHANGED <<options, engine, store, now>>

\* POST /store.  addMessage is called without await and its rejection is caught
\* and logged, so every valid request is answered 'Stored'.
PostStore(req, insertOk) ==
    /\ IF BodyTooLarge(req)
         THEN /\ res' = Response(413, "request entity too large")
              /\ EngineUntouched
       ELSE IF validateRequest(req) # "null"
         THEN /\ res' = Response(400, validateRequest(req))
              /\ EngineUntouched
       ELSE /\ AddMessage(req.channel.text, <<req.user.text, "user">>,
                          TrimmedMessage(req.message), insertOk)
            /\ res' = Response(200, "Stored")
    /\ UNCHANGED <<chat, bot>>

\* POST /chat: the entries built from contextMessages, placed after the system
\* prompt in the order getContext returned them (each entry keeps the timestamp
\* of its row, which the request itself does not carry).
ChatContext(contextMessages) ==
    [i \in 1..Len(contextMessages) |->
        LET msg == contextMessages[i]
        IN  [role |-> msg.role,
             content |-> IF msg.role = "user" THEN <<msg.user, msg.message>>
                         ELSE <<msg.message>>,
             timestamp |-> msg.timestamp]]

\* currentMessageAlreadyInContext: the last context message is the current one.
AlreadyInContext(contextMessages, user, trimmedMessage) ==
    /\ contextMessages # <<>>
    /\ contextMessages[Len(contextMessages)].user = user
    /\ contextMessages[Len(contextMessages)].message = trimmedMessage

\* The messages array sent to the LLM, without the system prompt.
LLMMessages(contextMessages, user, trimmedMessage) ==
    IF AlreadyInContext(contextMessages, user, trimmedMessage)
    THEN ChatContext(contextMessages)
    ELSE Append(ChatContext(contextMessages),
                [role |-> "user", content |-> <<user, trimmedMessage>>, timestamp |-> now])

\* The request in flight once getContext has been called: waiting for it, or, when
\* it has resolved, waiting for the LLM with the messages array built.
ChatAfterContext(channel, user, trimmedMessage, context) ==
    IF context.pc = "done"
    THEN [pc |-> "awaitLLM", channel |-> channel, user |-> user,
          message |-> trimmedMessage,
          messages |-> LLMMessages(context.result, user, trimmedMessage),
          timer |-> "armed"]
    ELSE [pc |-> "awaitContext", channel |-> channel, user |-> user,
          message |-> trimmedMessage, messages |-> <<>>, timer |-> "none"]

\* POST /chat up to `await memory.getContext(...)`.
PostChat(req, recentOk, tie) ==
    /\ chat.pc = "idle"
    /\ IF BodyTooLarge(req)
         THEN /\ res' = Response(413, "request entity too large")
              /\ EngineUntouched
              /\ UNCHANGED chat
       ELSE IF validateRequest(req) # "null"
         THEN /\ res' = Response(400, validateRequest(req))
              /\ EngineUntouched
              /\ UNCHANGED chat
       ELSE /\ GetContextCall(req.channel.text, TrimmedMessage(req.message), recentOk, tie)
            /\ chat' = ChatAfterContext(req.channel.text, req.user.text,
                                        TrimmedMessage(req.message), ctx')
            /\ res' = NoRes
    /\ UNCHANGED bot

\* POST /chat resumes when getContext resolves, builds the messages array and
\* calls the LLM.
ChatContextResume(embedOk, queryOk, tie) ==
    /\ chat.pc = "awaitContext"
    /\ GetContextResume(embedOk, queryOk, tie)
    /\ chat' = ChatAfterContext(chat.channel, chat.user, chat.message, ctx')
    /\ res' = NoRes
    /\ UNCHANGED bot

\* What the call of the LLM can come to: a reply (with or without a speaker
\* prefix), a status that is not ok, no content, the timeout, another error.
LLMOutcomes ==
    {[kind |-> "ok", reply |-> "hello"], [kind |-> "ok", reply |-> "bot: hello"],
     [kind |-> "notOk", reply |-> ""], [kind |-> "empty", reply |-> ""],
     [kind |-> "abort", reply |-> ""], [kind |-> "error", reply |-> ""]}

\* reply.replace(/^[a-zA-Z0-9_\-]+:\s*/, '').trim()
CleanedReply(reply) == IF reply = "bot: hello" THEN "hello" ELSE reply

\* FailureResponse without the test for AbortError.
FailureResponseNoTimeout(kind) ==
    CASE kind = "notOk" -> Response(502, "LLM service error")
      [] kind = "empty" -> Response(502, "Empty response from LLM")
      [] OTHER          -> Response(500, "Internal gateway error")

\* The abort timer once the fetch has settled: clearTimeout(timeoutId) follows the
\* await and opens the catch block, so no path leaves it armed.
TimerAfterFetch(kind) == "none"

\* The status of a /chat that does not end in a reply.
FailureResponse(kind) ==
    CASE kind = "notOk" -> Response(502, "LLM service error")
      [] kind = "empty" -> Response(502, "Empty response from LLM")
      [] kind = "abort" -> Response(504, "LLM service timeout")
      [] OTHER          -> Response(500, "Internal gateway error")

\* The reply stored under the role of a user.
AssistantAuthorAsUser == <<"assistant", "user">>

\* memory.addMessage(chatReq.channel, 'assistant', cleanedReply, 'assistant')
AssistantAuthor == <<"assistant", "assistant">>

\* POST /chat from the LLM's answer to the response.  addMessage is called
\* without await and its rejection is caught and logged.
ChatLLM(outcome, insertOk) ==
    /\ chat.pc = "awaitLLM"
    /\ IF outcome.kind = "ok"
         THEN /\ AddMessage(chat.channel, AssistantAuthor,
                            CleanedReply(outcome.reply), insertOk)
              /\ res' = Response(200, CleanedReply(outcome.reply))
         ELSE /\ EngineUntouched
              /\ res' = FailureResponse(outcome.kind)
    /\ chat' = [NoChat EXCEPT !.timer = TimerAfterFetch(outcome.kind)]
    /\ UNCHANGED bot

\* The steps of the event loop that belong to no request.
Background ==
    /\ \/ Tick
       \/ \E t \in tasks : EmbedStart(t)
       \/ \E t \in tasks, e \in BOOLEAN, i \in BOOLEAN : EmbedFinish(t, e, i)
    /\ res' = NoRes
    /\ UNCHANGED <<chat, bot>>

(* --------------------------- eggdrop script ---------------------------- *)

\* Eggdrop's $botnick.
botnick == "mybot"

\* Who speaks in the channel: a user and the bot itself.
Nicks == {"alice", botnick}

\* Channel messages, as sequences of tokens: the bot's nick (in two letter
\* cases), "@", ":", blanks and a word.
ChannelTexts ==
    { <<"@", "mybot", " ", "hi">>,
      <<"mybot", ":", " ", "hi">>,
      <<"mybot", " ", "hi">>,
      <<"hi", " ", "MyBot">>,
      <<"@", "mybot", " ">>,
      <<"hi">> }

\* [string tolower], on one token.
ToLower(token) == IF token = "MyBot" THEN "mybot" ELSE token

\* [string tolower $text]
StringToLower(text) == [i \in 1..Len(text) |-> ToLower(text[i])]

\* [string match "*${pattern}*" $text], for a pattern of one token.
StringMatchAnywhere(pattern, text) == \E i \in 1..Len(text) : text[i] = pattern

\* Blanks, as [string trim] removes them.
IsBlank(c) == c \in {" ", "\n"}

RECURSIVE StringTrim(_)
\* [string trim $text]
StringTrim(text) ==
    IF text = <<>> THEN <<>>
    ELSE IF IsBlank(Head(text)) THEN StringTrim(Tail(text))
    ELSE IF IsBlank(text[Len(text)]) THEN StringTrim(SubSeq(text, 1, Len(text) - 1))
    ELSE text

\* [string range $text $first $last]: both indices count from 0 and are inclusive.
StringRange(text, first, last) == SubSeq(text, Max(first, 0) + 1, Min(last + 1, Len(text)))

\* llmbot_sanitize_irc without the regsub: only the line ends are replaced.
llmbot_sanitize_irc_map_only(text) ==
    [i \in 1..Len(text) |-> IF text[i] = "\n" THEN " " ELSE text[i]]

\* llmbot_sanitize_irc: "\r" and "\n" become blanks, control characters go.
llmbot_sanitize_irc(text) ==
    SelectSeq([i \in 1..Len(text) |-> IF text[i] = "\n" THEN " " ELSE text[i]],
              LAMBDA c : c # "^A")

\* The key of the rate-limit array: "${nick}!${chan}".
UserKey(nick, chan) == <<nick, chan>>

\* What the script sends: a POST to /store, a POST to /chat, a PRIVMSG.
StoreRequest(nick, chan, text) ==
    [kind |-> "store", nick |-> nick, chan |-> chan, text |-> text, n |-> 0]

ChatRequest(nick, chan, text) ==
    [kind |-> "chat", nick |-> nick, chan |-> chan, text |-> text, n |-> 0]

Privmsg(what, nick, chan, text, n) ==
    [kind |-> what, nick |-> nick, chan |-> chan, text |-> text, n |-> n]

RECURSIVE SeqsUpTo(_, _)
\* Every sequence of at most n elements of S.
SeqsUpTo(S, n) ==
    IF n = 0 THEN {<<>>}
    ELSE LET shorter == SeqsUpTo(S, n - 1)
         IN  shorter \cup {Append(q, c) : q \in shorter, c \in S}

\* What ::http::geturl can give llmbot_query: a token with a status, a code
\* and a body, or an error raised by the call (data is then the error's text).
HttpResults(datas) ==
    {[status |-> "ok", ncode |-> c, data |-> d] : c \in {200, 502}, d \in datas}
    \cup {[status |-> "error", ncode |-> 0, data |-> d] : d \in datas}
    \cup {[status |-> "timeout", ncode |-> 0, data |-> <<>>]}

\* The test of FromBot swapped for one that is never true.
FromBotNever(nick) == FALSE

\* if {$nick ne $botnick}: the bot's own messages are not stored.
FromBot(nick) == nick = botnick

\* llmbot_store_message: one asynchronous POST to /store, nothing awaited.
llmbot_store_message(nick, chan, message) == <<StoreRequest(nick, chan, message)>>

\* A case-sensitive test in place of Mentioned.
MentionedCaseSensitive(text) == StringMatchAnywhere(botnick, text)

\* [string match "*${bot_lower}*" $text_lower]
Mentioned(text) == StringMatchAnywhere(ToLower(botnick), StringToLower(text))

\* The comparison of RateLimited turned round.
RateLimitedInverted(user_key) ==
    /\ user_key \in DOMAIN llmbot_last_request
    /\ clock - llmbot_last_request[user_key] > llmbot_rate_limit

\* [info exists llmbot_last_request($user_key)] and $elapsed < $llmbot_rate_limit
RateLimited(user_key) ==
    /\ user_key \in DOMAIN llmbot_last_request
    /\ clock - llmbot_last_request[user_key] < llmbot_rate_limit

\* set data [string range $data 0 $llmbot_max_response_size]
Truncate(data) == StringRange(data, 0, llmbot_max_response_size)

\* llmbot_query: the blocking POST to /chat and the relay of its result.
\* After llmbot_sanitize_irc no "\n" is left, so the split gives one line.
llmbot_query(nick, chan, message, result) ==
    <<ChatRequest(nick, chan, message)>> \o
    ( IF result.status = "error"
        THEN <<Privmsg("failed", nick, chan,
                       StringRange(llmbot_sanitize_irc(result.data), 0, 100), 0)>>
      ELSE IF result.status = "ok" /\ result.ncode = 200
        THEN LET large == Len(result.data) > llmbot_max_response_size
                 data  == IF large THEN Truncate(result.data) ELSE result.data
                 line  == StringTrim(llmbot_sanitize_irc(data))
             IN  (IF large THEN <<Privmsg("truncated", nick, chan, <<>>, 0)>> ELSE <<>>)
                 \o (IF line # <<>> THEN <<Privmsg("line", nick, chan, line, 0)>> ELSE <<>>)
      ELSE LET safe_data == StringRange(llmbot_sanitize_irc(result.data), 0, 200)
           IN  <<Privmsg("error", nick, chan,
                         IF safe_data = <<>> THEN <<"(no response)">> ELSE safe_data,
                         result.ncode)>> )

\* One public channel message: the pubm binding runs the handler to its end,
\* the blocking query to the gateway included.
llmbot_pub_handler(nick, chan, text, result) ==
    LET stores   == IF ~FromBot(nick) THEN llmbot_store_message(nick, chan, text) ELSE <<>>
        query    == StringTrim(text)
        user_key == UserKey(nick, chan)
    IN  /\ IF ~Mentioned(text)
             THEN /\ irc' = stores
                  /\ UNCHANGED <<llmbot_last_request, forwarded>>
           ELSE IF query = <<>>
             THEN /\ irc' = stores \o <<Privmsg("yes", nick, chan, <<>>, 0)>>
                  /\ UNCHANGED <<llmbot_last_request, forwarded>>
           ELSE IF RateLimited(user_key)
             THEN /\ irc' = stores \o
                        <<Privmsg("wait", nick, chan, <<>>,
                                  llmbot_rate_limit - (clock - llmbot_last_request[user_key]))>>
                  /\ UNCHANGED <<llmbot_last_request, forwarded>>
           ELSE /\ llmbot_last_request' = (user_key :> clock) @@ llmbot_last_request
                /\ forwarded' = (user_key :> clock) @@ forwarded
                /\ irc' = stores \o llmbot_query(nick, chan, query, result)
        /\ UNCHANGED <<llmbot_rate_limit, llmbot_max_response_size, clock>>
        /\ UNCHANGED <<options, engine, store, now, ctx, out, gateway>>

\* set cutoff [expr {[clock seconds] - ($llmbot_rate_limit * 10)}]
CleanupCutoff == clock - (llmbot_rate_limit * 10)

\* bind time "*/5 * * * *": entries older than the cutoff are unset.
llmbot_cleanup ==
    /\ llmbot_last_request' =
           [k \in {j \in DOMAIN llmbot_last_request :
                      ~(llmbot_last_request[j] < CleanupCutoff)}
              |-> llmbot_last_request[k]]
    /\ irc' = <<>>
    /\ UNCHANGED <<llmbot_rate_limit, llmbot_max_response_size, clock, forwarded>>
    /\ UNCHANGED <<options, engine, store, now, ctx, out, gateway>>

\* [clock seconds] advances.
ClockSecond ==
    /\ clock < MaxSeconds
    /\ clock' = clock + 1
    /\ irc' = <<>>
    /\ UNCHANGED <<llmbot_rate_limit, llmbot_max_response_size, llmbot_last_request, forwarded>>
    /\ UNCHANGED <<options, engine, store, now, ctx, out, gateway>>

(* ------------------------------- Next ---------------------------------- *)

\* The steps that write the engine or the store, with the callers' inputs drawn
\* from the given sets.
StoreSteps(channels, texts) ==
    \/ \E step \in {"ok", "openFail", "extFail"} : Initialize(step) /\ UNCHANGED outside
    \/ \E loaded \in BOOLEAN : InitializeResume(loaded) /\ UNCHANGED outside
    \/ Close /\ UNCHANGED outside
    \/ Tick /\ UNCHANGED outside
    \/ \E c \in channels, a \in Authors, x \in texts, ok \in BOOLEAN :
            AddMessage(c, a, x, ok) /\ UNCHANGED outside
    \/ \E t \in tasks : EmbedStart(t) /\ UNCHANGED outside
    \/ \E t \in tasks, e \in BOOLEAN, i \in BOOLEAN :
            EmbedFinish(t, e, i) /\ UNCHANGED outside

\* The steps of getContext, which reads the engine and the store and writes neither.
ContextSteps(channels, queries) ==
    \/ \E c \in channels, q \in queries, ok \in BOOLEAN, tie \in Ties :
            GetContextCall(c, q, ok, tie) /\ UNCHANGED outside
    \/ \E e \in BOOLEAN, q \in BOOLEAN, tie \in Ties :
            GetContextResume(e, q, tie) /\ UNCHANGED outside

\* Two channels, one text: every stored message is equally near every query.
Next ==
    \/ StoreSteps(Channels, {"red"})
    \/ ContextSteps(Channels, {"red"})

Spec == Init /\ [][Next]_vars

\* The engine without getContext calls.  getContext writes neither the engine nor
\* the store and no other step reads topK or includeRecent, so the options are
\* fixed and the behaviours of the engine and the store are those of Spec.
InitStore ==
    /\ Init
    /\ topK = MaxK
    /\ includeRecent = 0

NextStore == StoreSteps(Channels, {"red"})

SpecStore == InitStore /\ [][NextStore]_vars

\* The engine after `new VectorMemory({enabled: e, topK: k, includeRecent: r})`.
EngineInit(e, k, r) ==
    /\ enabled = e
    /\ topK = k
    /\ includeRecent = r
    /\ db = "null"
    /\ embedder = FALSE
    /\ initialized = FALSE
    /\ loading = 0
    /\ messages = <<>>
    /\ seq = 0
    /\ vec = {}
    /\ tasks = {}
    /\ failedLog = {}
    /\ ret = {}
    /\ unhandled = FALSE
    /\ now = 0
    /\ ctx = IdleCtx
    /\ out = NoOut

\* The whole system at start, with the engine's options given.
InitWith(e, k, r) ==
    /\ EngineInit(e, k, r)
    /\ GatewayInit
    /\ BotInit(1, 1)

\* An enabled engine searching one channel that holds messages of both texts,
\* so that stored messages differ in their distance to the query.  The options
\* are not validated by the gateway: includeRecent may exceed topK.
InitShape == \E r \in 0..(MaxK + 1) : InitWith(TRUE, MaxK, r)

NextShape ==
    \/ StoreSteps({"#a"}, Texts)
    \/ ContextSteps({"#a"}, {"red"})

SpecShape == InitShape /\ [][NextShape]_vars

\* An enabled engine searching two channels that hold messages of both texts;
\* searchSimilar reads topK only, so includeRecent is fixed.
InitSim == \E k \in 1..MaxK : InitWith(TRUE, k, 0)

NextSim ==
    \/ StoreSteps(Channels, Texts)
    \/ ContextSteps(Channels, {"red"})

SpecSim == InitSim /\ [][NextSim]_vars

\* The engine with getStats calls and without getContext calls.
NextStats ==
    \/ StoreSteps(Channels, {"red"})
    \/ \E ok \in BOOLEAN : GetStatsCall(ok) /\ UNCHANGED outside

SpecStats == InitStore /\ [][NextStats]_vars

\* The script alone, with a short rate limit; the gateway answers the query
\* with one of a few results.
InitBot ==
    /\ EngineInit(FALSE, 0, 0)
    /\ GatewayInit
    /\ \E rate \in 1..MaxRateLimit : BotInit(rate, MaxResponseSize)

PubmSteps(texts, results) ==
    \E nick \in Nicks, text \in texts, result \in results :
        llmbot_pub_handler(nick, "#a", text, result)

NextBot ==
    \/ PubmSteps(ChannelTexts, HttpResults({<<"x">>}))
    \/ llmbot_cleanup
    \/ ClockSecond

SpecBot == InitBot /\ [][NextBot]_vars

\* The characters of a gateway response: a letter, a line end, a control character.
Characters == {"x", "\n", "^A"}

\* The script relaying gateway responses of every short content.
InitRelay ==
    /\ EngineInit(FALSE, 0, 0)
    /\ GatewayInit
    /\ \E size \in 1..MaxResponseSize : BotInit(1, size)

\* The relay reads neither the clock nor the rate-limit array, so the clock stands
\* still and each sender's first mention is the one relayed.
NextRelay ==
    PubmSteps({<<"@", "mybot", " ", "hi">>}, HttpResults(SeqsUpTo(Characters, MaxData)))

SpecRelay == InitRelay /\ [][NextRelay]_vars

\* The gateway once it listens: memory.initialize() has resolved, so the engine is
\* ready or disabled; SIGINT and SIGTERM close the engine and exit the process.
ListeningGateway ==
    /\ enabled \in BOOLEAN
    /\ topK = MaxK
    /\ includeRecent = 1
    /\ db = IF enabled THEN "open" ELSE "null"
    /\ embedder = enabled
    /\ initialized = enabled
    /\ loading = 0
    /\ messages = <<>>
    /\ seq = 0
    /\ vec = {}
    /\ tasks = {}
    /\ failedLog = {}
    /\ ret = {}
    /\ unhandled = FALSE
    /\ now = 0
    /\ ctx = IdleCtx
    /\ out = NoOut
    /\ GatewayInit
    /\ BotInit(1, 1)

\* The requests of one valid sender, a bad one and one over the body limit.
FewRequests ==
    {[message |-> m, user |-> Str("alice"), channel |-> Str("#a")] :
        m \in {Str("red"), Str(" red "), Str("m1000"), Undefined, Str("m11000")}}

\* The steps of the two handlers; oks and ties are the outcomes of the engine's
\* queries and the orders of equal sort keys that the steps may meet.
RequestSteps(requests, oks, ties) ==
    \/ \E req \in requests, insertOk \in oks : PostStore(req, insertOk)
    \/ \E req \in requests, recentOk \in oks, tie \in ties : PostChat(req, recentOk, tie)
    \/ \E e \in oks, q \in oks, tie \in ties : ChatContextResume(e, q, tie)
    \/ \E outcome \in LLMOutcomes, insertOk \in oks : ChatLLM(outcome, insertOk)

NextGateway ==
    \/ Background
    \/ RequestSteps(FewRequests, BOOLEAN, Ties)

SpecGateway == ListeningGateway /\ [][NextGateway]_vars

\* The gateway receiving every kind of body, its database and its embedder
\* working; validation reads the body alone, so the background steps are left out.
NextValidate == RequestSteps(Requests, {TRUE}, {"rowid_asc"})

SpecValidate == ListeningGateway /\ [][NextValidate]_vars

\* The two handlers alone, under the scheduling of the event loop: the embedding of
\* the query settles and getContext resumes; the fetch settles or the abort timer
\* fires.
NextChat == RequestSteps(FewRequests, BOOLEAN, Ties)

ChatFairness ==
    /\ WF_vars(\E e \in BOOLEAN, q \in BOOLEAN, tie \in Ties : ChatContextResume(e, q, tie))
    /\ WF_vars(\E outcome \in LLMOutcomes, insertOk \in BOOLEAN : ChatLLM(outcome, insertOk))

SpecChat == ListeningGateway /\ [][NextChat]_vars /\ ChatFairness

\* The setImmediate callback of message id takes its next step.
TaskStep(id) ==
    \E t \in tasks :
        /\ t.id = id
        /\ \/ EmbedStart(t)
           \/ \E e \in BOOLEAN, i \in BOOLEAN : EmbedFinish(t, e, i)
        /\ UNCHANGED outside

\* The event loop runs every queued callback and every settled promise's
\* continuation, and the wall clock keeps advancing.
Fairness ==
    /\ WF_vars(Tick /\ UNCHANGED outside)
    /\ WF_vars(\E loaded \in BOOLEAN : InitializeResume(loaded) /\ UNCHANGED outside)
    /\ \A id \in 1..MaxMsgs : WF_vars(TaskStep(id))

\* The engine without getContext calls, under the scheduling of the event loop.
SpecLive == InitStore /\ [][NextStore]_vars /\ Fairness

(* ------------------------------ claims --------------------------------- *)

\* isReady()
IsReady == enabled /\ initialized

\* The rows of a channel in the order they were inserted.
InsertionOrder(channel) == SelectSeq(messages, LAMBDA m : m.channel = channel)

\* The last n entries of a sequence.
LastN(s, n) == SubSeq(s, Len(s) - Min(n, Len(s)) + 1, Len(s))

\* C1 (as claimed): whatever includeRecent and topK are, also with
\* includeRecent > topK, a completed getContext returns at most topK messages.
C1_BudgetInvariant ==
    ctx.pc = "done" => Len(ctx.result) <= topK

\* C2: a completed getContext returns no message id twice, and no id of the
\* recency block (the first Len(recent) entries) appears in the block after it.
C2_DedupInvariant ==
    ctx.pc = "done" =>
        LET r == ctx.result
            n == Len(ctx.recent)
        IN  /\ \A i, j \in 1..Len(r) : i # j => r[i].id # r[j].id
            /\ n <= Len(r)
            /\ SubSeq(r, 1, n) = ctx.recent
            /\ \A i \in 1..n, j \in (n + 1)..Len(r) : r[i].id # r[j].id

\* C2 witness: the similarity search returned a message of the recency block,
\* and the result has both a recency block and a similarity block.
C2_Witness ==
    /\ ctx.pc = "done"
    /\ ctx.recent # <<>>
    /\ \E m \in Range(ctx.similar) : m.id \in Ids(ctx.recent)
    /\ Len(ctx.result) > Len(ctx.recent)

\* C3: with messages appended to several channels in any order, the recency
\* query, the similarity query and getContext on a channel return rows of that
\* channel only.
C3_ChannelIsolation ==
    /\ ctx.pc = "done" => \A m \in Range(ctx.result) : m.channel = ctx.channel
    /\ \A c \in Channels, k \in 0..MaxMsgs, tie \in Ties :
          /\ \A m \in Range(GetRecentMessages(c, k, TRUE, tie)) : m.channel = c
          /\ \A q \in Texts :
                \A m \in Range(SearchSimilarResume(c, q, k, TRUE, TRUE, tie)) : m.channel = c

\* C3 witness: getContext on one channel returned messages while another channel
\* holds a message that has an embedding.
C3_Witness ==
    /\ ctx.pc = "done"
    /\ ctx.result # <<>>
    /\ ctx.similar # <<>>
    /\ \E m \in Range(messages) :
          /\ m.channel # ctx.channel
          /\ \E v \in vec : v.message_id = m.id

\* C4 (as claimed): for any appends to a channel, equal timestamps included, the
\* recency query returns exactly the last min(k, n) messages appended to the
\* channel, in insertion order.
C4_ChronologicalRecency ==
    IsReady /\ db = "open" =>
        \A c \in Channels, k \in 0..MaxMsgs, tie \in Ties :
            GetRecentMessages(c, k, TRUE, tie) = LastN(InsertionOrder(c), k)

\* C5: every id a successful addMessage returns is larger than every id returned
\* before, on any channel, and is the id of no row stored before.
C5_MonotonicIds ==
    [][(out'.op = "addMessage" /\ out'.kind = "return" /\ out'.val # -1) =>
          /\ out'.val >= 1
          /\ \A old \in ret : out'.val > old
          /\ \A m \in Range(messages) : m.id < out'.val
          /\ \E m \in Range(messages') : m.id = out'.val]_vars

\* C5 witness: two appends to different channels returned ids 1 and 2.
C5_Witness ==
    /\ out = Returned("addMessage", 2)
    /\ ret = {1, 2}
    /\ Len(messages) = 2
    /\ messages[1].channel # messages[2].channel

\* C6: in the step in which addMessage returns an id, the row is stored and the
\* embedding task of that id is only queued; an embedding is in progress only
\* for an id that was returned in an earlier step.
C6_ResponsivenessOrdering ==
    [][/\ \A id \in ret' \ ret :
             /\ \E m \in Range(messages') : m.id = id
             /\ \E t \in tasks' : t.id = id
             /\ \A t \in tasks' : t.id = id => t.pc = "scheduled"
             /\ \A v \in vec' : v.message_id # id
       /\ \A t \in tasks' : t.pc = "embedding" => t.id \in ret]_vars

\* C6 witness: an embedding is being computed for an id addMessage has returned.
C6_Witness ==
    \E t \in tasks : t.pc = "embedding" /\ t.id \in ret

\* C7: when the embedding or the vec_messages insert of a message has failed,
\* addMessage had returned a valid id for it, its row is still stored and is
\* returned by the recency query, no error escaped, and no task is queued again
\* for it (so it never gets an embedding).
C7_EmbeddingFailureSwallowed ==
    /\ ~unhandled
    /\ \A id \in failedLog :
          /\ id >= 1
          /\ id \in ret
          /\ \A t \in tasks : t.id # id
          /\ \A v \in vec : v.message_id # id
          /\ \E m \in Range(messages) :
                /\ m.id = id
                /\ IsReady /\ db = "open" =>
                      \A tie \in Ties :
                          m \in Range(GetRecentMessages(m.channel, Len(messages), TRUE, tie))

\* C7 witness: an embedding task has failed while the engine is ready.
C7_Witness ==
    /\ failedLog # {}
    /\ IsReady
    /\ db = "open"

\* C8: when the embedding of the query fails, getContext still resolves, and its
\* result starts with the recency slice it read.
C8_DegradedRetrieval ==
    ctx.pc = "done" /\ ctx.path = "embedFail" =>
        /\ Len(ctx.recent) <= Len(ctx.result)
        /\ SubSeq(ctx.result, 1, Len(ctx.recent)) = ctx.recent

\* C8 witness: the query's embedding failed and the recency slice is not empty.
C8_Witness ==
    /\ ctx.pc = "done"
    /\ ctx.path = "embedFail"
    /\ ctx.recent # <<>>

\* C9 (as claimed): when the query's embedding or the vector query fails,
\* getContext returns the empty sequence.
C9_EmptyOnFailure ==
    ctx.pc = "done" /\ ctx.path \in {"embedFail", "indexFail"} => ctx.result = <<>>

\* C9 (amended): when the query's embedding or the vector query fails, getContext
\* returns exactly the recency slice it read.
C9_FailureReturnsRecency ==
    ctx.pc = "done" /\ ctx.path \in {"embedFail", "indexFail"} => ctx.result = ctx.recent

\* C9 witness: the vector query failed and getContext returned a non-empty result.
C9_Witness ==
    /\ ctx.pc = "done"
    /\ ctx.path = "indexFail"
    /\ ctx.result # <<>>

\* C10 (as claimed): while the engine is disabled, or not initialized, or has no
\* open database (close was called), every addMessage returns -1 and stores
\* nothing, and every getContext call returns the empty list.
C10_DisabledEngine ==
    [][(~enabled \/ ~initialized \/ db = "null") =>
          /\ out'.op = "addMessage" =>
                /\ out' = Returned("addMessage", -1)
                /\ UNCHANGED <<messages, seq, vec, tasks>>
          /\ ctx.pc # "awaitEmbed" /\ ctx'.pc = "done" => ctx'.result = <<>>]_vars

\* C11 (as claimed): whenever isReady() is true, the database is open and the
\* embedding model is loaded, however initialize() and close() interleave.
C11_Readiness ==
    IsReady => db # "null" /\ embedder

\* Whether message id has a row in vec_messages.
HasEmbedding(id) == \E v \in vec : v.message_id = id

\* C12: every row of vec_messages refers to a stored message, and no message
\* has two rows in vec_messages.
C12_EmbeddingIntegrity ==
    /\ \A v \in vec : \E m \in Range(messages) : m.id = v.message_id
    /\ \A v1, v2 \in vec : v1.message_id = v2.message_id => v1 = v2
    /\ Cardinality(vec) <= Len(messages)

\* C12 witness: two messages are stored and both have an embedding.
C12_Witness ==
    /\ Len(messages) = 2
    /\ \A i \in 1..2 : HasEmbedding(messages[i].id)

\* What purge_older_than(cutoff) has to leave: no message stamped before the
\* cutoff, in any channel, and no embedding without its message.
Purged(cutoff) ==
    /\ \A m \in Range(messages) : m.timestamp >= cutoff
    /\ \A v \in vec : \E m \in Range(messages) : m.id = v.message_id

\* C13 (as claimed): purge_older_than(cutoff) is an operation of the store: in
\* every state that holds a message stamped before the cutoff, the engine has a
\* step after which every such message is gone, in all channels, and no
\* embedding refers to a deleted message.
C13_CascadingDelete ==
    \A cutoff \in 1..(MaxClock + 1) :
        (\E m \in Range(messages) : m.timestamp < cutoff) =>
            ENABLED (NextStore /\ Purged(cutoff)')

\* The wall clock has passed the retention horizon of message m (the unit of
\* `now` is left open: one tick may be longer than the retention window).
Expired(m) == now > m.timestamp

\* C14 (as claimed): with a retention of N > 0 days, every stored message older
\* than N days is eventually deleted while the gateway runs.  (The engine reads
\* no retention option, so its behaviours are the same for every N, N = 0
\* included, where nothing may be deleted.)
C14_Retention ==
    \A id \in 1..MaxMsgs :
        (\E m \in Range(messages) : m.id = id /\ Expired(m))
            ~> (\A m \in Range(messages) : m.id # id)

\* C15 (as claimed): whenever includeRecent >= topK, a completed getContext
\* returns exactly the recency slice it read: the similarity search adds nothing.
C15_SimilarityCapEdge ==
    ctx.pc = "done" /\ includeRecent >= topK => ctx.result = ctx.recent

\* The distance of a stored message to a query text, as the vector query computes it.
DistanceTo(m, query) == Distance(Embed(m.message), Embed(query))

\* C16 (as claimed): a completed getContext returns the recency slice, oldest to
\* newest, as a prefix, followed by messages of the similarity search that are
\* not in the recency slice, nearest first, in the order the search returned
\* them, at most topK - includeRecent of them (none when that is not positive).
C16_ContextShape ==
    ctx.pc = "done" =>
        LET r == ctx.result
            n == Len(ctx.recent)
            dedup == SelectSeq(ctx.similar, LAMBDA m : m.id \notin Ids(ctx.recent))
        IN  /\ n <= Len(r)
            /\ SubSeq(r, 1, n) = ctx.recent
            /\ \A i, j \in 1..n : i < j => r[i].timestamp <= r[j].timestamp
            /\ Len(r) - n <= Len(dedup)
            /\ SubSeq(r, n + 1, Len(r)) = SubSeq(dedup, 1, Len(r) - n)
            /\ \A i, j \in (n + 1)..Len(r) :
                  i < j => DistanceTo(r[i], ctx.query) <= DistanceTo(r[j], ctx.query)
            /\ Len(r) - n <= Max(topK - includeRecent, 0)

\* C17 (as claimed): the context entries /chat sends between the system prompt
\* and the current message are sorted by timestamp, oldest to newest.
C17_ChronologicalContext ==
    ctx.pc = "done" =>
        LET sent == ChatContext(ctx.result)
        IN  \A i, j \in 1..Len(sent) : i < j => sent[i].timestamp <= sent[j].timestamp

\* C18: when the INSERT of a new message fails, addMessage throws to its caller,
\* no row is added, no rowid is used up, no embedding task is queued and no id
\* is returned.
C18_StorageFailureAtomic ==
    [][\A c \in Channels, a \in Authors, x \in Texts :
          (enabled /\ initialized /\ db # "null" /\ AddMessage(c, a, x, FALSE)) =>
              /\ out' = Thrown("addMessage")
              /\ UNCHANGED <<messages, seq, vec, tasks, ret>>]_vars

\* C18 witness: an INSERT has just failed on an open database that already holds
\* a message.
C18_Witness ==
    /\ out = Thrown("addMessage")
    /\ enabled /\ initialized /\ db = "open"
    /\ Len(messages) = 1
    /\ seq = 1

\* C19: under the scheduling of the event loop, every message for which
\* addMessage returned an id eventually has an embedding, unless its embedding
\* task failed (the embedder rejected, the vec_messages insert threw, or the
\* database was closed when the task reached it).  At every moment a returned
\* message is in the recency results of its channel, and it is in the
\* similarity results of its channel exactly when it has its embedding.
C19_EventualSearchability ==
    /\ \A id \in 1..MaxMsgs :
          (id \in ret) ~> (HasEmbedding(id) \/ id \in failedLog)
    /\ [](IsReady /\ db = "open" =>
            \A m \in Range(messages), tie \in Ties :
                m.id \in ret =>
                    /\ m \in Range(GetRecentMessages(m.channel, Len(messages), TRUE, tie))
                    /\ \A q \in Texts :
                          HasEmbedding(m.id) <=>
                              m \in Range(SearchSimilarResume(m.channel, q, Len(messages),
                                                              TRUE, TRUE, tie)))

\* C19 witness: of two returned messages, the first has its embedding and the
\* second is still waiting for its embedding task.
C19_Witness ==
    /\ IsReady /\ db = "open"
    /\ ret = {1, 2}
    /\ HasEmbedding(1)
    /\ ~HasEmbedding(2)
    /\ \E t \in tasks : t.id = 2

\* The messages of a channel that have an embedding.
Searchable(channel) == {m \in Range(messages) : m.channel = channel /\ HasEmbedding(m.id)}

\* C20: a searchSimilar(channel, q, limit) that ran its query returns at most
\* limit messages (all there are, when fewer are searchable), each once, all of
\* them messages of the channel that have an embedding, in ascending distance to
\* q, and no searchable message of the channel that it leaves out is strictly
\* nearer to q than one it returns.  (getContext calls it with limit = topK.)
C20_NearestNeighbours ==
    ctx.pc = "done" /\ ctx.path = "ok" =>
        LET s == ctx.similar
            q == ctx.query
        IN  /\ Len(s) = Min(topK, Cardinality(Searchable(ctx.channel)))
            /\ \A i \in 1..Len(s) : s[i] \in Searchable(ctx.channel)
            /\ \A i, j \in 1..Len(s) : i # j => s[i].id # s[j].id
            /\ \A i, j \in 1..Len(s) : i < j => DistanceTo(s[i], q) <= DistanceTo(s[j], q)
            /\ \A m \in Searchable(ctx.channel) \ Range(s) :
                  \A i \in 1..Len(s) : DistanceTo(m, q) >= DistanceTo(s[i], q)

\* C20 witness: with limit 1 and two searchable messages at different distances,
\* the search returned one message and left the other out.
C20_Witness ==
    /\ ctx.pc = "done"
    /\ ctx.path = "ok"
    /\ topK = 1
    /\ Len(ctx.similar) = 1
    /\ \E m \in Searchable(ctx.channel) :
          DistanceTo(m, ctx.query) > DistanceTo(ctx.similar[1], ctx.query)

RECURSIVE SumCounts(_)
\* The sum of the counts of a per-channel map.
SumCounts(f) ==
    IF DOMAIN f = {} THEN 0
    ELSE LET c == CHOOSE c \in DOMAIN f : TRUE
         IN  f[c] + SumCounts([d \in DOMAIN f \ {c} |-> f[d]])

\* C22: a getStats call returns (it never throws) and changes nothing; disabled,
\* uninitialized, without a database or on a query error it returns zeroed
\* stats; otherwise totalMessages is the number of stored messages, every
\* channel's count is the number of its messages, and the counts sum to
\* totalMessages.
C22_StatsTotal ==
    [][out'.op = "getStats" =>
          /\ out'.kind = "return"
          /\ UNCHANGED <<options, engine, store>>
          /\ (~enabled \/ ~initialized \/ db = "null" \/ GetStatsCall(FALSE))
                => out'.val = ZeroStats
          /\ (enabled /\ initialized /\ db # "null" /\ GetStatsCall(TRUE)) =>
                LET v == out'.val
                IN  /\ v.totalMessages = Len(messages)
                    /\ SumCounts(v.messagesByChannel) = v.totalMessages
                    /\ \A c \in Channels :
                          IF c \in DOMAIN v.messagesByChannel
                          THEN v.messagesByChannel[c] = Len(InsertionOrder(c))
                          ELSE Len(InsertionOrder(c)) = 0]_vars

\* C22 witness: getStats has just counted two messages in two channels.
C22_Witness ==
    /\ out.op = "getStats"
    /\ out.kind = "return"
    /\ out.val.totalMessages = 2
    /\ DOMAIN out.val.messagesByChannel = Channels

\* The records of one kind among what the script sent in its last step.
Sent(kind) == {i \in 1..Len(irc) : irc[i].kind = kind}

\* The same, for the step being taken.
SentNext(kind) == {i \in 1..Len(irc') : irc'[i].kind = kind}

\* C23: per (nick, channel), a query is forwarded to the gateway only when the rate
\* limit has elapsed since that sender's previous forwarded query; a mention that
\* arrives earlier is not forwarded and is answered with "please wait Ws", where W
\* is the number of seconds left, between 1 and the limit.
C23_RateLimit ==
    [][\A nick \in Nicks, text \in ChannelTexts, result \in HttpResults({<<"x">>}) :
          llmbot_pub_handler(nick, "#a", text, result) =>
            LET key   == UserKey(nick, "#a")
                early == /\ key \in DOMAIN forwarded
                         /\ clock - forwarded[key] < llmbot_rate_limit
            IN  /\ SentNext("chat") # {} => ~early
                /\ (early /\ Mentioned(text) /\ StringTrim(text) # <<>>) =>
                      /\ SentNext("chat") = {}
                      /\ \E i \in SentNext("wait") :
                            /\ irc'[i].n = llmbot_rate_limit - (clock - forwarded[key])
                            /\ irc'[i].n \in 1..llmbot_rate_limit
                /\ SentNext("wait") # {} => early]_vars

\* A mention that came before the limit elapsed was answered "please wait 1s"
\* under a limit of 2 seconds.
C23_Witness ==
    /\ llmbot_rate_limit = 2
    /\ \E i \in Sent("wait") :
          /\ irc[i].n = 1
          /\ UserKey(irc[i].nick, irc[i].chan) \in DOMAIN forwarded
          /\ clock - forwarded[UserKey(irc[i].nick, irc[i].chan)] = 1
    /\ Sent("chat") = {}

\* The message addresses the bot as '@botname <message>' or 'botname: <message>'.
Addressed(text) ==
    /\ Len(text) >= 2
    /\ \/ text[1] = "@" /\ ToLower(text[2]) = botnick
       \/ ToLower(text[1]) = botnick /\ text[2] = ":"

\* The message holds the bot's nickname, in either letter case.
HoldsNick(text) == \E i \in 1..Len(text) : text[i] \in {"mybot", "MyBot"}

\* The message holds a word besides the nickname and punctuation.
HoldsWord(text) == \E i \in 1..Len(text) : text[i] = "hi"

C25_EmptyMention ==
    [][\A nick \in Nicks, text \in ChannelTexts, result \in HttpResults({<<"x">>}) :
          (llmbot_pub_handler(nick, "#a", text, result)
             /\ HoldsNick(text) /\ ~HoldsWord(text)) =>
            /\ SentNext("chat") = {}
            /\ \E i \in SentNext("yes") : irc'[i].nick = nick]_vars

\* C26: every public channel message whose author is not the bot causes exactly one
\* /store request carrying its nick, channel and text, whether or not it mentions
\* the bot and whether or not its author is rate-limited; a message of the bot
\* itself causes none.
C26_FullChannelMemory ==
    [][\A nick \in Nicks, text \in ChannelTexts, result \in HttpResults({<<"x">>}) :
          llmbot_pub_handler(nick, "#a", text, result) =>
            IF nick = botnick
              THEN SentNext("store") = {}
              ELSE /\ Cardinality(SentNext("store")) = 1
                   /\ \A i \in SentNext("store") :
                         irc'[i] = StoreRequest(nick, "#a", text)]_vars

\* A mention of a rate-limited author was stored and answered "please wait".
C26_Witness ==
    /\ Cardinality(Sent("store")) = 1
    /\ Sent("wait") # {}
    /\ \A i \in Sent("store") : irc[i].nick # botnick /\ HoldsNick(irc[i].text)

\* C27: of every gateway response, llmbot_query relays at most
\* llmbot_max_response_size characters to the channel; a longer response is cut to
\* that size.
C27_ResponseSizeLimit ==
    \A i \in Sent("line") : Len(irc[i].text) <= llmbot_max_response_size

\* A field is missing, not a string, empty, or longer than its limit.
BadField(value, limit) ==
    \/ value.type # "string"
    \/ Length(value.text) = 0
    \/ Length(value.text) > limit

\* message, user or channel is missing, not a string, empty, or longer than
\* 1000 / 100 / 100 characters.
BadRequest(req) ==
    \/ BadField(req.message, 1000)
    \/ BadField(req.user, 100)
    \/ BadField(req.channel, 100)

\* C28 as stated: /store and /chat answer 400 exactly when message, user or channel
\* is missing, not a string, empty or too long; a rejected request stores no
\* message and makes no LLM call.
C28_InputValidation ==
    [][\A req \in Requests :
          (PostStore(req, TRUE) \/ PostChat(req, TRUE, "rowid_asc")) =>
            /\ res'.status = 400 <=> BadRequest(req)
            /\ res'.status = 400 => messages' = messages /\ chat' = chat]_vars

\* C28 as amended: a body over the parser's limit of 10KB is refused with 413 before
\* the handler runs; any other request is answered 400 exactly when message, user
\* or channel is missing, not a string, empty or too long; a request refused either
\* way stores no message and makes no LLM call.
C28_InputValidationWithinBodyLimit ==
    [][\A req \in Requests :
          (PostStore(req, TRUE) \/ PostChat(req, TRUE, "rowid_asc")) =>
            /\ res'.status = 413 <=> BodyTooLarge(req)
            /\ res'.status = 400 <=> (~BodyTooLarge(req) /\ BadRequest(req))
            /\ res'.status \in {400, 413} =>
                  /\ messages' = messages
                  /\ tasks' = tasks
                  /\ chat' = chat]_vars

\* A request with a message one character too long was answered 400 while the
\* store held a message of the longest length allowed.
C28_Witness ==
    /\ res = [status |-> 400, body |-> "Missing or invalid message"]
    /\ \E i \in 1..Len(messages) : messages[i].message = "m500"

\* The store after one assistant message with the reply sent to the client was
\* added to the channel of the request.
ReplyAdded ==
    /\ Len(messages') = Len(messages) + 1
    /\ SubSeq(messages', 1, Len(messages)) = messages
    /\ LET m == messages'[Len(messages')]
       IN  /\ m.role = "assistant"
           /\ m.channel = chat.channel
           /\ m.message = res'.body
           /\ m.message = "hello"

\* A step of /chat before the LLM answers: the request is accepted, or getContext
\* resolves.
ChatAdvances ==
    \/ chat.pc = "idle" /\ chat'.pc # "idle"
    \/ chat.pc = "awaitContext" /\ chat' # chat

\* C29 as stated: a /chat request never stores the user's message; it adds exactly
\* one message (role 'assistant', the cleaned reply, same channel) when it answers
\* 200, and none when it answers 400, 500, 502 or 504.
C29_ChatStorageEffect ==
    [][/\ ChatAdvances => messages' = messages
       /\ (chat.pc = "awaitLLM" /\ chat' # chat) =>
            IF res'.status = 200 THEN ReplyAdded ELSE messages' = messages]_vars

\* C29 as amended: a /chat request never stores the user's message; when it answers
\* 200 it adds exactly one message (role 'assistant', the cleaned reply, same
\* channel) if the memory engine is enabled and the insert succeeds, and none if
\* memory is disabled or the insert fails; it adds none when it answers 400, 500,
\* 502 or 504.
C29_ChatStorageWhenReady ==
    [][/\ ChatAdvances => messages' = messages
       /\ (chat.pc = "awaitLLM" /\ chat' # chat) =>
            \A outcome \in LLMOutcomes, insertOk \in BOOLEAN :
                ChatLLM(outcome, insertOk) =>
                    IF res'.status = 200 /\ enabled /\ initialized /\ insertOk
                    THEN ReplyAdded
                    ELSE messages' = messages
       /\ res'.status \in {400, 413, 500, 502, 504} => messages' = messages]_vars

\* A /chat answered 200 and its reply was added after the user's stored message.
C29_Witness ==
    /\ res = [status |-> 200, body |-> "hello"]
    /\ out.kind = "return"
    /\ Len(messages) = 2
    /\ messages[1].role = "user"
    /\ messages[2].role = "assistant"
    /\ messages[2].message = "hello"

\* The entries of the messages array that carry the current user message.
CurrentEntries ==
    {i \in 1..Len(chat.messages) :
        /\ chat.messages[i].role = "user"
        /\ chat.messages[i].content = <<chat.user, chat.message>>}

\* The stored rows that carry the current user message.
CurrentRows ==
    {i \in 1..Len(messages) :
        /\ messages[i].channel = chat.channel
        /\ messages[i].user = chat.user
        /\ messages[i].message = chat.message}

\* C30: in the messages array /chat sends to the LLM the current user message
\* appears exactly once, whether or not its /store was processed before and whatever
\* getContext returned (the user said it once: at most one stored row carries it).
C30_NoDuplicateCurrentMessage ==
    (chat.pc = "awaitLLM" /\ Cardinality(CurrentRows) <= 1) =>
        Cardinality(CurrentEntries) = 1

\* The status the claim gives to each way the LLM call can end.
ExpectedStatus(kind) ==
    CASE kind = "ok"    -> 200
      [] kind = "notOk" -> 502
      [] kind = "empty" -> 502
      [] kind = "abort" -> 504
      [] OTHER          -> 500

\* C31: every valid /chat request receives exactly one HTTP response: none before
\* the LLM call ends, then 200 with the cleaned reply, 502 (upstream status not ok,
\* or empty reply), 504 (aborted by the timer) or 500 (any other failure), and a
\* request that was accepted is answered in the end; the abort timer is armed while
\* the fetch is awaited and cleared on every path after it.
C31_OneResponse ==
    /\ [][/\ ChatAdvances => res' = NoRes
          /\ chat'.pc = "awaitLLM" <=> chat'.timer = "armed"
          /\ (chat.pc = "awaitLLM" /\ chat' # chat) =>
               /\ chat'.pc = "idle"
               /\ \A outcome \in LLMOutcomes, insertOk \in BOOLEAN :
                     ChatLLM(outcome, insertOk) =>
                        /\ res'.status = ExpectedStatus(outcome.kind)
                        /\ outcome.kind = "ok" => res'.body = "hello"]_vars
    /\ (chat.pc # "idle") ~> (chat.pc = "idle" /\ res.status \in {200, 500, 502, 504})

\* A /chat whose LLM call was aborted by the timer was answered 504.
C31_Witness ==
    /\ res = [status |-> 504, body |-> "LLM service timeout"]
    /\ chat.pc = "idle"
    /\ chat.timer = "none"

\* C32: whenever /store answers 'Stored' for a valid request, the trimmed message
\* (at most 500 characters) has been inserted in the message store for that channel
\* with role 'user', also when the memory system is disabled or the insert fails.
C32_AcknowledgedIsStored ==
    [][res'.body = "Stored" =>
          /\ Len(messages') = Len(messages) + 1
          /\ SubSeq(messages', 1, Len(messages)) = messages
          /\ LET m == messages'[Len(messages')]
             IN  /\ m.role = "user"
                 /\ Length(m.message) <= 500
                 /\ \E req \in FewRequests :
                       /\ validateRequest(req) = "null"
                       /\ m.channel = req.channel.text
                       /\ m.user = req.user.text
                       /\ m.message = TrimmedMessage(req.message)]_vars

RECURSIVE SplitLines(_, _)
\* The newline-separated lines of a body, each without control characters and
\* trimmed, the empty ones left out; line is the line being read.
SplitLines(data, line) ==
    LET clean == StringTrim(SelectSeq(line, LAMBDA c : c # "^A"))
        done  == IF clean = <<>> THEN <<>> ELSE <<clean>>
    IN  IF data = <<>> THEN done
        ELSE IF Head(data) = "\n" THEN done \o SplitLines(Tail(data), <<>>)
        ELSE SplitLines(Tail(data), Append(line, Head(data)))

\* The texts of the response lines the script sent in the step being taken.
LinesSentNext ==
    LET picked == SelectSeq(irc', LAMBDA r : r.kind = "line")
    IN  [i \in 1..Len(picked) |-> picked[i].text]

\* C33: for a 200 response whose body has several newline-separated lines (and is
\* within the size limit), llmbot_query sends one PRIVMSG per non-empty line, in
\* order.
C33_LineSplitting ==
    [][SentNext("chat") # {} =>
          \A data \in SeqsUpTo(Characters, MaxData), nick \in Nicks :
              (/\ Len(data) <= llmbot_max_response_size
               /\ llmbot_pub_handler(nick, "#a", <<"@", "mybot", " ", "hi">>,
                                     [status |-> "ok", ncode |-> 200, data |-> data]))
              => LinesSentNext = SplitLines(data, <<>>)]_vars

\* CR, LF, NUL and the other characters below 0x20, as the model writes them.
ControlCharacters == {"\n", "^A"}

\* C34: no PRIVMSG that llmbot_query emits carries, in the part taken from the
\* gateway response or from an error text, a CR, LF, NUL or other control character.
C34_InjectionSafety ==
    \A i \in 1..Len(irc) :
        irc[i].kind \in {"line", "error", "failed"} =>
            \A j \in 1..Len(irc[i].text) : irc[i].text[j] \notin ControlCharacters

\* A response line was sent whose body held a line end between two letters.
C34_Witness ==
    \E i \in Sent("line") : irc[i].text = <<"x", " ", "x">>

\* C35: for any number of initialize() calls, sequential or overlapping while the
\* model is loading, the database is opened at most once and the embedding model is
\* loaded at most once: no call opens the database or starts a load while an
\* earlier call is still loading; a call made after initialization has completed,
\* or with enabled = false, changes nothing.
C35_SingleShotInitialize ==
    [][\A step \in {"ok", "openFail", "extFail"} :
          Initialize(step) =>
            /\ (~enabled \/ initialized) => UNCHANGED <<engine, store>>
            /\ (enabled /\ ~initialized /\ step # "openFail") => loading = 0
            /\ loading' > loading => loading = 0]_vars

\* close() has run while embedding tasks scheduled by earlier addMessage calls were
\* pending: a task is queued only while the database is open, and only close()
\* sets the database to null.
ClosedWithPendingTasks == db = "null" /\ tasks # {}

\* C36 (as claimed): if close() runs while embedding tasks scheduled by earlier
\* addMessage calls are still pending, each pending task ends without raising an
\* error outside its own handler and without writing to the store, the message
\* rows already inserted are unchanged, and every later addMessage returns -1.
C36_CloseWithPendingWork ==
    [][ClosedWithPendingTasks =>
          /\ unhandled' = unhandled
          /\ vec' = vec
          /\ messages' = messages
          /\ \A t \in tasks \ tasks' :
                \/ t.id \in failedLog'
                \/ [t EXCEPT !.pc = "embedding"] \in tasks'
          /\ out'.op = "addMessage" => out' = Returned("addMessage", -1)]_vars


====
